---- MODULE Spec2Model ----
(***************************************************************************)
(* A model of SFTP-to-Google-Shared-Drive.py: the SFTP retrieval loop, the *)
(* per-archive extraction / record-driven renaming, the index aggregation  *)
(* and the batch orchestration of the main block.                          *)
(*                                                                         *)
(* Text (file names, CSV fields, header lines) is a sequence of one-       *)
(* character strings, so that formatting, os.path.splitext, str.lower and  *)
(* substring tests are computed, not assumed.                              *)
(***************************************************************************)
EXTENDS Integers, Sequences, FiniteSets, TLC

VARIABLES
    \* ---- process_zip_archive, the row loop (lines 259-290) ----
    extract_dir,     \* the extraction directory: file name -> file identity
    dir0,            \* the extraction directory when the row loop starts
    n_rows,          \* number of data rows the index holds
    rowlog,          \* one record per row the loop has handled so far
    rpc,             \* "rows" | "done" | "aborted" | "off"
    \* ---- aggregate_index_csv (lines 173-218) ----
    n_files,         \* len(index_csv_paths)
    file_log,        \* one record per index file opened so far
    master_header,   \* None, or the adopted header
    master_rows,     \* the list master_rows
    master_csv,      \* None, or the lines written to master_csv_path
    sort_failed,     \* the except branch of line 209 was taken
    apc,             \* "open" | "reading" | "sort" | "write" | "done" | "off"
    \* ---- the run: download_files_from_sftp and the main block ----
    pc,                \* where the run is
    remote,            \* names listed in SFTP_REMOTE_PATH on the server
    sftp_download_dir, \* names of the files in SFTP_DOWNLOAD_DIR
    matching_files,    \* the list matching_files
    downloaded_files,  \* the list downloaded_files
    sftp_log,          \* sftp.get / sftp.remove calls made, in order
    drive_service,     \* the Drive service has been initialised
    zip_files,         \* the list zip_files of process_all_zip_archives
    processed,         \* one record per call of process_zip_archive
    index_csv_list,    \* the list index_csv_list
    extraction,        \* extraction directory of the archive at hand
    uploads,           \* calls of files().create(...).execute()
    master_exists,     \* master_csv_path names a file
    cleaned_up,        \* cleanup_local_files has run
    exit_code          \* None while running, then the exit status

renameVars == <<extract_dir, dir0, n_rows, rowlog, rpc>>

aggVars == <<n_files, file_log, master_header, master_rows, master_csv, sort_failed, apc>>

mainVars == <<pc, remote, sftp_download_dir, matching_files, downloaded_files, sftp_log,
              drive_service, zip_files, processed, index_csv_list, extraction, uploads,
              master_exists, cleaned_up, exit_code>>

vars == <<renameVars, aggVars, mainVars>>

----------------------------------------------------------------------------
(* Bounds of the model *)

\* rows of one index file
MaxRows == 3

\* index files given to the aggregator
MaxFiles == 2

\* data rows read by the aggregator over all index files
MaxMasterRows == 3

----------------------------------------------------------------------------
(* Text helpers *)

Range(s) == {s[i] : i \in DOMAIN s}

Last(s) == s[Len(s)]

\* str.rfind for a single character, 1-based; 0 when absent (Python: -1)
RFind(p, c) ==
    LET hits == {i \in DOMAIN p : p[i] = c}
    IN  IF hits = {} THEN 0 ELSE CHOOSE i \in hits : \A j \in hits : j <= i

\* "needle in line"
Contains(line, needle) ==
    \E i \in 0..(Len(line) - Len(needle)) :
        SubSeq(line, i + 1, i + Len(needle)) = needle

\* line.endswith(suffix)
EndsWith(line, suffix) ==
    /\ Len(line) >= Len(suffix)
    /\ SubSeq(line, Len(line) - Len(suffix) + 1, Len(line)) = suffix

Upper == <<"A","B","C","D","E","F","G","H","I","J","K","L","M",
           "N","O","P","Q","R","S","T","U","V","W","X","Y","Z">>
Lower == <<"a","b","c","d","e","f","g","h","i","j","k","l","m",
           "n","o","p","q","r","s","t","u","v","w","x","y","z">>

\* str.lower() on one character
LowerChar(c) ==
    IF \E i \in DOMAIN Upper : Upper[i] = c
    THEN Lower[CHOOSE i \in DOMAIN Upper : Upper[i] = c]
    ELSE c

\* str.lower()
ToLower(s) == [i \in DOMAIN s |-> LowerChar(s[i])]

Digits == <<"0","1","2","3","4","5","6","7","8","9">>

\* str(counter) inside the f-string of line 279
RECURSIVE Str(_)
Str(n) ==
    IF n < 10 THEN <<Digits[n + 1]>>
    ELSE Str(n \div 10) \o <<Digits[(n % 10) + 1]>>

\* os.path.splitext(p)[1]: the text from the last dot on, unless that dot
\* lies before the last separator or only dots precede it in the file name
SplitExt(p) ==
    LET sepIndex == RFind(p, "/")
        dotIndex == RFind(p, ".")
    IN  IF /\ dotIndex > sepIndex
           /\ \E k \in (sepIndex + 1)..(dotIndex - 1) : p[k] # "."
        THEN SubSeq(p, dotIndex, Len(p))
        ELSE <<>>

FILE_NAME == <<"F","i","l","e"," ","n","a","m","e">>

NOT_ADMITTED == <<"n","o","t"," ","a","d","m","i","t","t","e","d"," ","y","e","t">>

----------------------------------------------------------------------------
(* process_zip_archive: the record-driven renamer *)

\* line 266: a row lacking "File name", "Preferred" or "Last" (blank, or
\* None when the column is absent: both are falsy) is skipped
MissingRequired(row) ==
    row.file_name = <<>> \/ row.preferred = <<>> \/ row.last = <<>>

\* lines 269-270
IcId(row) == IF row.ic_id = <<>> THEN NOT_ADMITTED ELSE row.ic_id

\* line 273: f"{last}, {first} - {ic_id}{ext}"
NewFilename(row) ==
    row.last \o <<",", " ">> \o row.preferred \o <<" ", "-", " ">>
        \o IcId(row) \o SplitExt(row.file_name)

\* line 279: f"{last}, {first} - {ic_id} ({counter}){ext}"
CandidateFilename(row, counter) ==
    row.last \o <<",", " ">> \o row.preferred \o <<" ", "-", " ">>
        \o IcId(row) \o <<" ", "(">> \o Str(counter) \o <<")">>
        \o SplitExt(row.file_name)

\* a plausible slip: the existence loop is missing, the bare name is used
ProbeNoCheck(names, row, candidate, counter) ==
    [path |-> candidate, counter |-> counter]

\* a plausible slip: the counter is advanced before it is formatted
RECURSIVE ProbeSkipsOne(_, _, _, _)
ProbeSkipsOne(names, row, candidate, counter) ==
    IF candidate \notin names
    THEN [path |-> candidate, counter |-> counter]
    ELSE ProbeSkipsOne(names, row, CandidateFilename(row, counter + 1), counter + 1)

\* lines 276-282: while os.path.exists(candidate_path): next candidate
RECURSIVE Probe(_, _, _, _)
Probe(names, row, candidate, counter) ==
    IF candidate \notin names
    THEN [path |-> candidate, counter |-> counter]
    ELSE Probe(names, row, CandidateFilename(row, counter), counter + 1)

\* lines 275-282
NewFilePath(dir, row) == Probe(DOMAIN dir, row, NewFilename(row), 1).path

\* a plausible slip: os.rename is called without the existence test of line 283
RowOutcomeNoExistsTest(dir, row) ==
    IF MissingRequired(row) THEN "skipped" ELSE "rename"

\* lines 266-268, 283, 289-290: what the loop body does with a row
RowOutcome(dir, row) ==
    IF MissingRequired(row) THEN "skipped"
    ELSE IF row.file_name \in DOMAIN dir THEN "rename"
    ELSE "missing"

\* os.rename(src, dst) when it succeeds: dst names the file src named; a
\* file dst named before is replaced (POSIX)
OsRename(dir, src, dst) ==
    [n \in (DOMAIN dir \ {src}) \cup {dst} |->
        IF n = dst THEN dir[src] ELSE dir[n]]

\* os.rename raises when the source does not exist; any other OSError
\* (permissions, characters the file system refuses) is the caller's choice
RenameCanSucceed(dir, src) == src \in DOMAIN dir

----------------------------------------------------------------------------
(* Inputs of the row loop *)

A_JPG == <<"a", ".", "j", "p", "g">>
B_JPG == <<"b", ".", "j", "p", "g">>
C_JPG == <<"c", ".", "j", "p", "g">>
\* "S, A - 1.jpg" and "S, A - 1 (1).jpg": names the renamer itself produces
T_JPG == <<"S", ",", " ", "A", " ", "-", " ", "1", ".", "j", "p", "g">>
T1_JPG == <<"S", ",", " ", "A", " ", "-", " ", "1", " ", "(", "1", ")", ".", "j", "p", "g">>

RowFileNames == {A_JPG, B_JPG, C_JPG, T_JPG}

\* "Preferred", "Last" and "IC ID Number" of a row; a blank "IC ID Number"
\* is replaced by the sentinel
RowIdentities ==
    { [preferred |-> <<"A">>, last |-> <<"S">>, ic_id |-> <<"1">>],
      [preferred |-> <<"A">>, last |-> <<"S">>, ic_id |-> <<>>] }

\* rows with a blank "File name", "Preferred" or "Last"
BlankRows ==
    { [file_name |-> <<>>,  preferred |-> <<"A">>, last |-> <<"S">>, ic_id |-> <<"1">>],
      [file_name |-> A_JPG, preferred |-> <<>>,    last |-> <<"S">>, ic_id |-> <<"1">>],
      [file_name |-> A_JPG, preferred |-> <<"A">>, last |-> <<>>,    ic_id |-> <<"1">>] }

RowUniverse ==
    { [file_name |-> f, preferred |-> p.preferred, last |-> p.last, ic_id |-> p.ic_id] :
        f \in RowFileNames, p \in RowIdentities } \cup BlankRows

\* file identities of the files an extraction directory may hold at the start
FileIds == (A_JPG :> 1) @@ (B_JPG :> 2) @@ (C_JPG :> 3) @@ (T_JPG :> 4) @@ (T1_JPG :> 5)

InitialDirNames ==
    { {A_JPG, B_JPG, C_JPG},
      {A_JPG, B_JPG},
      {A_JPG, B_JPG, C_JPG, T_JPG},
      {A_JPG, B_JPG, C_JPG, T1_JPG},
      {A_JPG, B_JPG, C_JPG, T_JPG, T1_JPG} }

----------------------------------------------------------------------------
(* The row loop as a state machine *)

None == "None"

\* the aggregator is not part of the run
AggOff ==
    /\ n_files = 0
    /\ file_log = <<>>
    /\ master_header = None
    /\ master_rows = <<>>
    /\ master_csv = None
    /\ sort_failed = FALSE
    /\ apc = "off"

\* the batch is not part of the run
MainOff ==
    /\ pc = "off"
    /\ remote = {}
    /\ sftp_download_dir = {}
    /\ matching_files = <<>>
    /\ downloaded_files = <<>>
    /\ sftp_log = <<>>
    /\ drive_service = FALSE
    /\ zip_files = <<>>
    /\ processed = <<>>
    /\ index_csv_list = <<>>
    /\ extraction = <<>>
    /\ uploads = {}
    /\ master_exists = FALSE
    /\ cleaned_up = FALSE
    /\ exit_code = None

\* the row loop is not part of the run
RenameOff ==
    /\ extract_dir = <<>>
    /\ dir0 = <<>>
    /\ n_rows = 0
    /\ rowlog = <<>>
    /\ rpc = "off"

RenameInit ==
    /\ \E names \in InitialDirNames :
          /\ extract_dir = [n \in names |-> FileIds[n]]
          /\ dir0 = [n \in names |-> FileIds[n]]
    /\ n_rows \in 0..MaxRows
    /\ rowlog = <<>>
    /\ rpc = "rows"
    /\ AggOff
    /\ MainOff

LogEntry(row, outcome, dst, after) ==
    [row |-> row, outcome |-> outcome, dst |-> dst,
     before |-> extract_dir, after |-> after]

\* one iteration of "for row in reader" (lines 261-290)
ProcessRow ==
    /\ rpc = "rows"
    /\ Len(rowlog) < n_rows
    /\ \E row \in RowUniverse :
          LET outcome == RowOutcome(extract_dir, row) IN
          CASE outcome = "skipped" ->
                  /\ rowlog' = Append(rowlog, LogEntry(row, "skipped", <<>>, extract_dir))
                  /\ UNCHANGED <<extract_dir, rpc>>
            [] outcome = "missing" ->
                  /\ rowlog' = Append(rowlog, LogEntry(row, "missing", <<>>, extract_dir))
                  /\ UNCHANGED <<extract_dir, rpc>>
            [] outcome = "rename" ->
                  LET dst == NewFilePath(extract_dir, row) IN
                  \/ /\ RenameCanSucceed(extract_dir, row.file_name)
                     /\ extract_dir' = OsRename(extract_dir, row.file_name, dst)
                     /\ rowlog' = Append(rowlog, LogEntry(row, "renamed", dst, extract_dir'))
                     /\ UNCHANGED rpc
                  \/ \* os.rename raises: caught at line 291, the loop is left
                     /\ rowlog' = Append(rowlog, LogEntry(row, "failed", dst, extract_dir))
                     /\ rpc' = "aborted"
                     /\ UNCHANGED extract_dir
    /\ UNCHANGED <<dir0, n_rows, aggVars, mainVars>>

\* the reader is exhausted: the with block of line 259 ends
RowsExhausted ==
    /\ rpc = "rows"
    /\ Len(rowlog) = n_rows
    /\ rpc' = "done"
    /\ UNCHANGED <<extract_dir, dir0, n_rows, rowlog, aggVars, mainVars>>

RenameNext == ProcessRow \/ RowsExhausted

SpecRename == RenameInit /\ [][RenameNext]_vars

----------------------------------------------------------------------------
(* Claims about the renamer, checked under SpecRename *)

Renamed(i) == rowlog[i].outcome = "renamed"

FileIdsOf(dir) == {dir[n] : n \in DOMAIN dir}

\* the names "target", "target (1)", "target (2)", ... of a row
FamilyName(row, n) == IF n = 0 THEN NewFilename(row) ELSE CandidateFilename(row, n)

\* C1: no rename overwrites a file. Every rename's target name was absent
\* from the extraction directory immediately before the rename, every file
\* the directory held before a rename is still there after it, and at any
\* moment the directory holds exactly the files it held when the pass
\* started, each under a name of its own.
C1_NoOverwrite ==
    /\ \A i \in DOMAIN rowlog :
          Renamed(i) =>
             /\ rowlog[i].dst \notin DOMAIN rowlog[i].before
             /\ FileIdsOf(rowlog[i].after) = FileIdsOf(rowlog[i].before)
             /\ rowlog[i].dst \in DOMAIN rowlog[i].after
    /\ FileIdsOf(extract_dir) = FileIdsOf(dir0)
    /\ Cardinality(DOMAIN extract_dir) = Cardinality(DOMAIN dir0)

\* C1's case: three rows with the same target are renamed in a directory
\* that already held a file with the target name
C1_Witness ==
    /\ rpc = "done"
    /\ T_JPG \in DOMAIN dir0
    /\ \E i, j, k \in DOMAIN rowlog :
          /\ i < j /\ j < k
          /\ Renamed(i) /\ Renamed(j) /\ Renamed(k)
          /\ NewFilename(rowlog[i].row) = T_JPG
          /\ NewFilename(rowlog[j].row) = T_JPG
          /\ NewFilename(rowlog[k].row) = T_JPG

\* the file that row i moved
MovedFile(i) == rowlog[i].before[rowlog[i].row.file_name]

\* C11 as stated: within one pass over an index each file is renamed at
\* most once: no two rows move the same file, so a file that an earlier row
\* brought to its final name is not moved again by a later row.
C11_RenamedAtMostOnce ==
    \A i, j \in DOMAIN rowlog :
        (i < j /\ Renamed(i) /\ Renamed(j)) => MovedFile(i) # MovedFile(j)

\* rows up to i (i included) that have the required fields and map to the
\* same target name as row i
SameTargetUpTo(i) ==
    {j \in 1..i : /\ ~MissingRequired(rowlog[j].row)
                  /\ NewFilename(rowlog[j].row) = NewFilename(rowlog[i].row)}

\* C2 as stated: the Nth row mapping to a target name is renamed to the bare
\* target for N = 1 and to the target with suffix " (N-1)" for N >= 2,
\* whatever the index and the directory.
C2_SuffixIsPosition ==
    \A i \in DOMAIN rowlog :
        Renamed(i) =>
            rowlog[i].dst = FamilyName(rowlog[i].row, Cardinality(SameTargetUpTo(i)) - 1)

\* the first n >= 0 for which FamilyName(row, n) names no file of names
FirstFree(names, row) ==
    CHOOSE n \in 0..Cardinality(names) :
        /\ FamilyName(row, n) \notin names
        /\ \A m \in 0..(n - 1) : FamilyName(row, m) \in names

\* names of row i's family that a directory of the model can hold
FamilyOf(i) ==
    {FamilyName(rowlog[i].row, n) : n \in 0..(Cardinality(DOMAIN dir0) + MaxRows + 1)}

\* the family of row i's target is used by nothing but the rows mapping to
\* that target: no file of the starting directory has such a name, no row
\* up to i names such a file as its source, no row of another target was
\* renamed to such a name
FamilyUndisturbed(i) ==
    /\ FamilyOf(i) \cap DOMAIN dir0 = {}
    /\ \A j \in 1..i : rowlog[j].row.file_name \notin FamilyOf(i)
    /\ \A j \in 1..i :
          (Renamed(j) /\ j \notin SameTargetUpTo(i)) => rowlog[j].dst \notin FamilyOf(i)

\* C2 amended: a renamed row gets the first name of "target", "target (1)",
\* "target (2)", ... that no file of the extraction directory has at that
\* moment; when the family of names is undisturbed, that is the bare target
\* for the first renamed row of the target and suffix " (N-1)" for the Nth.
C2_SuffixIsFirstFree ==
    \A i \in DOMAIN rowlog :
        Renamed(i) =>
            /\ rowlog[i].dst =
                  FamilyName(rowlog[i].row, FirstFree(DOMAIN rowlog[i].before, rowlog[i].row))
            /\ FamilyUndisturbed(i) =>
                  rowlog[i].dst =
                     FamilyName(rowlog[i].row,
                                Cardinality({j \in SameTargetUpTo(i) : Renamed(j)}) - 1)

\* C2's case: the third renamed row of one target gets suffix " (2)"
C2_Witness ==
    \E i \in DOMAIN rowlog :
        /\ Renamed(i)
        /\ FamilyUndisturbed(i)
        /\ Cardinality({j \in SameTargetUpTo(i) : Renamed(j)}) = 3
        /\ rowlog[i].dst = CandidateFilename(rowlog[i].row, 2)

\* the rows C8 is about: a required field is blank, or the source payload
\* file is not in the extraction directory
SkipCase(i) ==
    \/ MissingRequired(rowlog[i].row)
    \/ rowlog[i].row.file_name \notin DOMAIN rowlog[i].before

\* C8: a row with a blank required field or a missing source file leaves
\* the extraction directory as it was, raises nothing, and the loop goes on
\* to the next row of the index.
C8_SkipLeavesDirectory ==
    \A i \in DOMAIN rowlog :
        SkipCase(i) =>
            /\ rowlog[i].after = rowlog[i].before
            /\ rowlog[i].outcome \in {"skipped", "missing"}
            /\ (i = Len(rowlog)) => (extract_dir = rowlog[i].before /\ rpc # "aborted")
            /\ (i = Len(rowlog) /\ i < n_rows) => rpc = "rows"
            /\ rpc = "done" => Len(rowlog) = n_rows

\* C8's case: a blank row and a row with a missing source, then a rename
C8_Witness ==
    \E i, j, k \in DOMAIN rowlog :
        /\ i < k /\ j < k
        /\ MissingRequired(rowlog[i].row)
        /\ ~MissingRequired(rowlog[j].row)
        /\ rowlog[j].row.file_name \notin DOMAIN rowlog[j].before
        /\ Renamed(k)

----------------------------------------------------------------------------
(* aggregate_index_csv *)

PREFERRED == <<"P","r","e","f","e","r","r","e","d">>

LAST == <<"L","a","s","t">>

\* the characters of the model in code point order
CharOrder == <<" ", "(", ")", ",", "-", ".", "/">> \o Digits \o Upper \o <<"_">> \o Lower

Ord(c) == CHOOSE i \in DOMAIN CharOrder : CharOrder[i] = c

\* a <= b for Python strings: by code point, a proper prefix first
StrLeq(a, b) ==
    LET m == IF Len(a) < Len(b) THEN Len(a) ELSE Len(b)
        diff == {i \in 1..m : a[i] # b[i]}
    IN  IF diff = {} THEN Len(a) <= Len(b)
        ELSE LET k == CHOOSE i \in diff : \A j \in diff : i <= j
             IN  Ord(a[k]) < Ord(b[k])

\* k1 <= k2 for the key tuples of line 206
KeyLeq(k1, k2) ==
    IF k1[1] # k2[1] THEN StrLeq(k1[1], k2[1])
    ELSE IF k1[2] # k2[2] THEN StrLeq(k1[2], k2[2])
    ELSE StrLeq(k1[3], k2[3])

\* header.index(name), 1-based; 0 where Python raises ValueError
HeaderIndex(header, name) ==
    LET hits == {i \in DOMAIN header : header[i] = name}
    IN  IF hits = {} THEN 0 ELSE CHOOSE i \in hits : \A j \in hits : i <= j

\* line 206: the key of a row
SortKey(r, header) ==
    << ToLower(r[HeaderIndex(header, LAST)]),
       ToLower(r[HeaderIndex(header, PREFERRED)]),
       ToLower(r[HeaderIndex(header, FILE_NAME)]) >>

\* lines 200-207 raise: a key column is not in the header (ValueError), or
\* a row is too short to have a key column (IndexError)
SortRaises(header, data_rows) ==
    \/ HeaderIndex(header, LAST) = 0
    \/ HeaderIndex(header, PREFERRED) = 0
    \/ HeaderIndex(header, FILE_NAME) = 0
    \/ \E i \in DOMAIN data_rows :
          \/ Len(data_rows[i]) < HeaderIndex(header, LAST)
          \/ Len(data_rows[i]) < HeaderIndex(header, PREFERRED)
          \/ Len(data_rows[i]) < HeaderIndex(header, FILE_NAME)

\* sorted(data_rows, key=...): a stable sort, here by insertion
RECURSIVE SortedRows(_, _)
SortedRows(rows, header) ==
    IF rows = <<>> THEN <<>>
    ELSE LET front == SortedRows(SubSeq(rows, 1, Len(rows) - 1), header)
             x == rows[Len(rows)]
             p == Cardinality({i \in DOMAIN front :
                      KeyLeq(SortKey(front[i], header), SortKey(x, header))})
         IN  SubSeq(front, 1, p) \o <<x>> \o SubSeq(front, p + 1, Len(front))

\* lines 197-210: master_rows after the sorting block
SortMasterRows(rows) ==
    IF Len(rows) > 1
    THEN IF SortRaises(rows[1], Tail(rows))
         THEN rows
         ELSE <<rows[1]>> \o SortedRows(Tail(rows), rows[1])
    ELSE rows

\* Inputs of the aggregator: headers and rows as csv.reader yields them
HEADER_FPL == <<FILE_NAME, PREFERRED, LAST>>
HEADER_FP == <<FILE_NAME, PREFERRED>>

IndexHeaders == {HEADER_FPL, HEADER_FP}

AggRows ==
    { << <<"x">>, <<"a">>, <<"B">> >>,
      << <<"Y">>, <<"a">>, <<"a">> >>,
      << <<"y">>, <<"A">>, <<"b">> >>,
      << <<"x">> >> }

DataRowCount == Len(master_rows) - (IF master_header = None THEN 0 ELSE 1)

AggInit ==
    /\ n_files \in 0..MaxFiles
    /\ file_log = <<>>
    /\ master_header = None
    /\ master_rows = <<>>
    /\ master_csv = None
    /\ sort_failed = FALSE
    /\ apc = "open"
    /\ RenameOff
    /\ MainOff

\* lines 182-191: the next index file is opened and its header read
AggOpenFile ==
    /\ apc = "open"
    /\ Len(file_log) < n_files
    /\ \/ \* open() or next(reader) raises: line 194
          /\ file_log' = Append(file_log, [header |-> None, rows |-> <<>>, error |-> TRUE])
          /\ UNCHANGED <<master_header, master_rows, apc>>
       \/ \E header \in IndexHeaders :
          /\ file_log' = Append(file_log, [header |-> header, rows |-> <<>>, error |-> FALSE])
          /\ IF master_header = None
             THEN /\ master_header' = header
                  /\ master_rows' = Append(master_rows, header)
             ELSE UNCHANGED <<master_header, master_rows>>
          /\ apc' = "reading"
    /\ UNCHANGED <<n_files, master_csv, sort_failed, renameVars, mainVars>>

\* lines 192-193: one more row of the open file
AggReadRow ==
    /\ apc = "reading"
    /\ DataRowCount < MaxMasterRows
    /\ \E row \in AggRows :
          /\ master_rows' = Append(master_rows, row)
          /\ file_log' = [file_log EXCEPT ![Len(file_log)].rows = Append(@, row)]
    /\ UNCHANGED <<n_files, master_header, master_csv, sort_failed, apc, renameVars, mainVars>>

\* the reader raises while iterating (undecodable bytes, csv.Error): line 194
AggReadError ==
    /\ apc = "reading"
    /\ file_log' = [file_log EXCEPT ![Len(file_log)].error = TRUE]
    /\ apc' = "open"
    /\ UNCHANGED <<n_files, master_header, master_rows, master_csv, sort_failed, renameVars, mainVars>>

\* the open file is exhausted
AggEndFile ==
    /\ apc = "reading"
    /\ apc' = "open"
    /\ UNCHANGED <<n_files, file_log, master_header, master_rows, master_csv,
                   sort_failed, renameVars, mainVars>>

\* lines 196-210
AggSort ==
    /\ apc = "open"
    /\ Len(file_log) = n_files
    /\ master_rows' = SortMasterRows(master_rows)
    /\ sort_failed' = (Len(master_rows) > 1 /\ SortRaises(master_rows[1], Tail(master_rows)))
    /\ apc' = "write"
    /\ UNCHANGED <<n_files, file_log, master_header, master_csv, renameVars, mainVars>>

\* lines 211-218: the rows handed to writer.writerow, or nothing when
\* opening the master file raises
AggWrite ==
    /\ apc = "write"
    /\ \/ master_csv' = master_rows
       \/ master_csv' = None
    /\ apc' = "done"
    /\ UNCHANGED <<n_files, file_log, master_header, master_rows, sort_failed, renameVars, mainVars>>

AggNext ==
    \/ AggOpenFile
    \/ AggReadRow
    \/ AggReadError
    \/ AggEndFile
    \/ AggSort
    \/ AggWrite

SpecAgg == AggInit /\ [][AggNext]_vars

----------------------------------------------------------------------------
(* Claims about the aggregator, checked under SpecAgg *)

HasKeyColumns(header) ==
    /\ HeaderIndex(header, LAST) # 0
    /\ HeaderIndex(header, PREFERRED) # 0
    /\ HeaderIndex(header, FILE_NAME) # 0

HasKeys(r, header) ==
    /\ Len(r) >= HeaderIndex(header, LAST)
    /\ Len(r) >= HeaderIndex(header, PREFERRED)
    /\ Len(r) >= HeaderIndex(header, FILE_NAME)

\* C4 as stated: the master file written starts with the adopted header and
\* its data rows are in ascending order of (Last, Preferred, File name),
\* compared case-insensitively, also when rows differ in length: any two
\* data rows that have the three key fields are in key order.
C4_MasterIsSorted ==
    (apc = "done" /\ master_csv # None /\ master_header # None) =>
        /\ master_csv[1] = master_header
        /\ HasKeyColumns(master_header) =>
              \A i, j \in 2..Len(master_csv) :
                  (i < j /\ HasKeys(master_csv[i], master_header)
                         /\ HasKeys(master_csv[j], master_header)) =>
                      KeyLeq(SortKey(master_csv[i], master_header),
                             SortKey(master_csv[j], master_header))

\* index files read without any error, in list order
Readable == {i \in DOMAIN file_log : ~file_log[i].error}

RECURSIVE RowsOfFiles(_, _)
RowsOfFiles(log, keep) ==
    IF log = <<>> THEN <<>>
    ELSE RowsOfFiles(SubSeq(log, 1, Len(log) - 1), keep)
            \o (IF Len(log) \in keep THEN log[Len(log)].rows ELSE <<>>)

Count(seq, x) == Cardinality({i \in DOMAIN seq : seq[i] = x})

SameBag(s, t) == \A x \in Range(s) \cup Range(t) : Count(s, x) = Count(t, x)

\* C5 as stated: the master header is the header of the first index file
\* that is read without error, and the data rows written are exactly the
\* rows of the files read without error; a file whose reading raises at any
\* point contributes no rows.
C5_RowsOfReadableFiles ==
    (apc = "done" /\ master_csv # None) =>
        /\ Readable # {} =>
              /\ master_csv # <<>>
              /\ master_csv[1] =
                    file_log[CHOOSE i \in Readable : \A j \in Readable : i <= j].header
        /\ SameBag(IF master_header = None THEN master_csv ELSE Tail(master_csv),
                   RowsOfFiles(file_log, Readable))

----------------------------------------------------------------------------
(* The run: download_files_from_sftp, then the main block *)

DATAFILE_ == <<"d","a","t","a","f","i","l","e","_">>

ZIP_EXT == <<".","z","i","p">>

CSV_EXT == <<".","c","s","v">>

Rep(c, n) == [i \in 1..n |-> c]

\* re.fullmatch(r"datafile_\d{8}_\d{6}\.zip", name) of line 76
FullMatchMask(name) ==
    /\ Len(name) = 28
    /\ SubSeq(name, 1, 9) = DATAFILE_
    /\ \A i \in 10..17 : name[i] \in Range(Digits)
    /\ name[18] = "_"
    /\ \A i \in 19..24 : name[i] \in Range(Digits)
    /\ SubSeq(name, 25, 28) = ZIP_EXT

\* glob "*.zip" of line 304: the name ends with ".zip" and is not hidden
GlobZip(name) == EndsWith(name, ZIP_EXT) /\ name[1] # "."

\* a plausible slip: only names of the SFTP mask are taken from the directory
ZipFilesInMaskOnly(dir) == {n \in dir : FullMatchMask(n)}

\* line 304: the set behind glob.glob(os.path.join(input_dir, "*.zip"))
ZipFilesIn(dir) == {n \in dir : GlobZip(n)}

\* the lists a directory listing of a set of names may be
Orderings(S) ==
    {seq \in [1..Cardinality(S) -> S] : \A i, j \in 1..Cardinality(S) : seq[i] = seq[j] => i = j}

\* a plausible slip: sftp.remove sits in a finally clause and runs after a failed get
FetchCallsRemoveAlways(f, got, removed) ==
    << [op |-> "get", file |-> f, ok |-> got], [op |-> "remove", file |-> f, ok |-> removed] >>

\* lines 90-100: the sftp calls of one iteration; remove is inside the try
\* of get and after it, so it is reached only when get returned
FetchCalls(f, got, removed) ==
    IF got
    THEN << [op |-> "get", file |-> f, ok |-> TRUE], [op |-> "remove", file |-> f, ok |-> removed] >>
    ELSE << [op |-> "get", file |-> f, ok |-> FALSE] >>

\* a plausible slip: the guard of line 382 is lost
MainCheckNoGuard(files) == TRUE

\* line 382: "if not downloaded_files" is false
MainCheckPasses(files) == files # <<>>

\* MediaFileUpload(local_file, ...) of line 135 opens the file: it raises,
\* outside the try of line 136, when the file does not exist
MediaFileUploadOpens(exists) == exists

\* Names of the run
Z1 == DATAFILE_ \o Rep("1", 8) \o <<"_">> \o Rep("1", 6) \o ZIP_EXT
Z2 == DATAFILE_ \o Rep("2", 8) \o <<"_">> \o Rep("2", 6) \o ZIP_EXT
Z3 == DATAFILE_ \o Rep("3", 8) \o <<"_">> \o Rep("3", 6) \o ZIP_EXT
README == <<"r", ".", "t", "x", "t">>
OLD_ZIP == <<"o", "l", "d", ".", "z", "i", "p">>
X_TMP == <<"x", ".", "t", "m", "p">>
MASTER_CSV == <<"p", "h", "o", "t", "o", "s", "_", "u", "p", "l", "o", "a", "d", "e", "d", "-">>
                 \o CSV_EXT

\* what the server may list, and what an earlier run may have left in
\* SFTP_DOWNLOAD_DIR (cleanup did not run, or could not delete)
RemoteListings == { {}, {README}, {Z1, README} }
RemoteListingsOfThree == { {Z1, Z2, Z3}, {Z1, Z2, Z3, README} }
StaleDownloads == { {}, {OLD_ZIP}, {OLD_ZIP, X_TMP} }

\* Archive contents: entry names in namelist order, each entry's first line
\* (None when it cannot be decoded), and the rows of the index
INDEX_CSV == <<"i", ".", "c", "s", "v">>
NOTES_CSV == <<"n", ".", "C", "S", "V">>
GARBLED_CSV == <<"g", ".", "c", "s", "v">>
NESTED_JPG == <<"d", "/", "b", ".", "j", "p", "g">>
HEADER_LINE == FILE_NAME \o <<",">> \o PREFERRED \o <<",">> \o LAST
OTHER_LINE == <<"i", "d">>

ROW_A == [file_name |-> A_JPG, preferred |-> <<"A">>, last |-> <<"S">>, ic_id |-> <<"1">>]
ROW_B == [file_name |-> B_JPG, preferred |-> <<"A">>, last |-> <<"S">>, ic_id |-> <<"1">>]

ArchiveKinds ==
    { [bad |-> FALSE, namelist |-> <<INDEX_CSV, A_JPG, B_JPG>>,
       first_line |-> (INDEX_CSV :> HEADER_LINE) @@ (A_JPG :> OTHER_LINE) @@ (B_JPG :> OTHER_LINE),
       rows |-> <<ROW_A, ROW_B>>],
      [bad |-> FALSE, namelist |-> <<A_JPG, B_JPG>>,
       first_line |-> (A_JPG :> OTHER_LINE) @@ (B_JPG :> OTHER_LINE),
       rows |-> <<>>],
      [bad |-> FALSE, namelist |-> <<A_JPG, NESTED_JPG>>,
       first_line |-> (A_JPG :> OTHER_LINE) @@ (NESTED_JPG :> OTHER_LINE),
       rows |-> <<>>],
      [bad |-> FALSE, namelist |-> <<GARBLED_CSV, NOTES_CSV, A_JPG>>,
       first_line |-> (GARBLED_CSV :> None) @@ (NOTES_CSV :> OTHER_LINE) @@ (A_JPG :> OTHER_LINE),
       rows |-> <<>>],
      [bad |-> TRUE, namelist |-> <<>>, first_line |-> <<>>, rows |-> <<>>] }

\* lines 242-249 and 158-162: a .csv entry whose first line can be decoded
\* and contains "File name"
IsIndexCsv(name, line) ==
    /\ EndsWith(ToLower(name), CSV_EXT)
    /\ line # None
    /\ Contains(line, FILE_NAME)

\* lines 239-251: the first entry of the archive, in namelist order, that
\* is an index; None when there is none
FindIndexCsv(kind) ==
    LET hits == {i \in DOMAIN kind.namelist :
                    IsIndexCsv(kind.namelist[i], kind.first_line[kind.namelist[i]])}
    IN  IF hits = {} THEN None
        ELSE kind.namelist[CHOOSE i \in hits : \A j \in hits : i <= j]

\* lines 259-290 over all rows from row i on; the os.rename of row fail_at
\* raises (0: none does), which ends the loop at line 291
RECURSIVE RenamePass(_, _, _, _)
RenamePass(dir, rows, fail_at, i) ==
    IF i > Len(rows) THEN [dir |-> dir, renamed |-> <<>>]
    ELSE IF RowOutcome(dir, rows[i]) = "rename"
         THEN IF i = fail_at \/ ~RenameCanSucceed(dir, rows[i].file_name)
              THEN [dir |-> dir, renamed |-> <<>>]
              ELSE LET dst == NewFilePath(dir, rows[i])
                       rest == RenamePass(OsRename(dir, rows[i].file_name, dst),
                                          rows, fail_at, i + 1)
                   IN  [dir |-> rest.dir,
                        renamed |-> << <<rows[i].file_name, dst>> >> \o rest.renamed]
         ELSE RenamePass(dir, rows, fail_at, i + 1)

\* os.listdir(extraction_dir) with os.path.isfile (lines 155-157): a file
\* extracted into a subdirectory is not among them
IsTopLevelFile(name) == "/" \notin Range(name)

\* lines 155-167: the files upload_extracted_files hands to upload_file_to_drive
UploadCandidates(dir) ==
    {n \in DOMAIN dir : IsTopLevelFile(n) /\ ~IsIndexCsv(n, dir[n])}

MainInit(listings) ==
    /\ pc = "connect"
    /\ remote \in listings
    /\ sftp_download_dir \in StaleDownloads
    /\ matching_files = <<>>
    /\ downloaded_files = <<>>
    /\ sftp_log = <<>>
    /\ drive_service = FALSE
    /\ zip_files = <<>>
    /\ processed = <<>>
    /\ index_csv_list = <<>>
    /\ extraction = <<>>
    /\ uploads = {}
    /\ master_exists = FALSE
    /\ cleaned_up = FALSE
    /\ exit_code = None
    /\ RenameOff
    /\ AggOff

\* lines 67-73: connect and open the SFTP session, or raise (line 106)
Connect ==
    /\ pc = "connect"
    /\ pc' \in {"list", "main_check"}
    /\ UNCHANGED <<remote, sftp_download_dir, matching_files, downloaded_files, sftp_log,
                   drive_service, zip_files, processed, index_csv_list, extraction,
                   uploads, master_exists, cleaned_up, exit_code, renameVars, aggVars>>

\* lines 75-84: list, filter by the mask, return when nothing matches
ListRemote ==
    /\ pc = "list"
    /\ \/ \* sftp.listdir raises (line 106)
          /\ pc' = "main_check"
          /\ UNCHANGED matching_files
       \/ \E order \in Orderings({f \in remote : FullMatchMask(f)}) :
          /\ matching_files' = order
          /\ pc' = IF order = <<>> THEN "main_check" ELSE "fetch"
    /\ UNCHANGED <<remote, sftp_download_dir, downloaded_files, sftp_log,
                   drive_service, zip_files, processed, index_csv_list, extraction,
                   uploads, master_exists, cleaned_up, exit_code, renameVars, aggVars>>

GetCalls == {i \in DOMAIN sftp_log : sftp_log[i].op = "get"}

\* lines 86-104: one iteration of the loop over matching_files; a get that
\* raises may leave a partly written local file
FetchNext ==
    /\ pc = "fetch"
    /\ LET f == matching_files[Cardinality(GetCalls) + 1] IN
       \E got \in BOOLEAN, removed \in BOOLEAN, partial \in BOOLEAN :
          /\ got => ~partial
          /\ ~got => ~removed
          /\ LET calls == FetchCalls(f, got, removed) IN
             /\ sftp_log' = sftp_log \o calls
             /\ remote' = remote \ {calls[i].file : i \in {j \in DOMAIN calls :
                                        calls[j].op = "remove" /\ calls[j].ok}}
          /\ downloaded_files' = IF got THEN Append(downloaded_files, f) ELSE downloaded_files
          /\ sftp_download_dir' = IF got \/ partial THEN sftp_download_dir \cup {f}
                                  ELSE sftp_download_dir
    /\ pc' = IF Cardinality(GetCalls) + 1 = Len(matching_files) THEN "main_check" ELSE "fetch"
    /\ UNCHANGED <<matching_files, drive_service, zip_files, processed, index_csv_list,
                   extraction, uploads, master_exists, cleaned_up, exit_code,
                   renameVars, aggVars>>

\* lines 382-384
MainCheck ==
    /\ pc = "main_check"
    /\ IF MainCheckPasses(downloaded_files)
       THEN pc' = "init_drive" /\ UNCHANGED exit_code
       ELSE pc' = "exit1" /\ exit_code' = 1
    /\ UNCHANGED <<remote, sftp_download_dir, matching_files, downloaded_files, sftp_log,
                   drive_service, zip_files, processed, index_csv_list, extraction,
                   uploads, master_exists, cleaned_up, renameVars, aggVars>>

\* line 389: init_drive_service returns, or raises (nothing catches it)
InitDrive ==
    /\ pc = "init_drive"
    /\ \/ drive_service' = TRUE /\ pc' = "glob" /\ UNCHANGED exit_code
       \/ pc' = "crashed" /\ exit_code' = 1 /\ UNCHANGED drive_service
    /\ UNCHANGED <<remote, sftp_download_dir, matching_files, downloaded_files, sftp_log,
                   zip_files, processed, index_csv_list, extraction,
                   uploads, master_exists, cleaned_up, renameVars, aggVars>>

\* lines 303-307
GlobZipFiles ==
    /\ pc = "glob"
    /\ \E order \in Orderings(ZipFilesIn(sftp_download_dir)) :
          /\ zip_files' = order
          /\ pc' = IF order = <<>> THEN "aggregate" ELSE "archive"
    /\ UNCHANGED <<remote, sftp_download_dir, matching_files, downloaded_files, sftp_log,
                   drive_service, processed, index_csv_list, extraction,
                   uploads, master_exists, cleaned_up, exit_code, renameVars, aggVars>>

\* lines 309-317 with process_zip_archive (lines 232-293): extract, find
\* the index, rename by its rows, collect the index path
ProcessZipArchive ==
    /\ pc = "archive"
    /\ \E kind \in ArchiveKinds :
       \E fail_at \in 0..Len(kind.rows) :
          LET zip == zip_files[Len(processed) + 1]
              extracted == [n \in Range(kind.namelist) |-> kind.first_line[n]]
              index == FindIndexCsv(kind)
              pass == IF index = None THEN [dir |-> extracted, renamed |-> <<>>]
                      ELSE RenamePass(extracted, kind.rows, fail_at, 1)
          IN  /\ processed' = Append(processed,
                    [zip |-> zip,
                     extracted |-> DOMAIN extracted,
                     marker |-> \E n \in DOMAIN extracted :
                                    extracted[n] # None /\ Contains(extracted[n], FILE_NAME),
                     index |-> index,
                     renamed |-> pass.renamed])
              /\ index_csv_list' = IF index = None THEN index_csv_list
                                   ELSE Append(index_csv_list, <<zip, index>>)
              /\ extraction' = pass.dir
    /\ pc' = "upload_extracted"
    /\ UNCHANGED <<remote, sftp_download_dir, matching_files, downloaded_files, sftp_log,
                   drive_service, zip_files, uploads, master_exists, cleaned_up,
                   exit_code, renameVars, aggVars>>

\* line 318, upload_extracted_files (lines 150-168): every candidate is
\* handed to upload_file_to_drive, which returns an id or logs and returns
\* None (here for all files of the archive or for none)
UploadExtractedFiles ==
    /\ pc = "upload_extracted"
    /\ LET zip == processed[Len(processed)].zip
           cands == UploadCandidates(extraction)
       IN  \E oks \in {cands, {}} :
              uploads' = uploads \cup {[zip |-> zip, name |-> n, ok |-> n \in oks] : n \in cands}
    /\ pc' = IF Len(processed) < Len(zip_files) THEN "archive" ELSE "aggregate"
    /\ UNCHANGED <<remote, sftp_download_dir, matching_files, downloaded_files, sftp_log,
                   drive_service, zip_files, processed, index_csv_list, extraction,
                   master_exists, cleaned_up, exit_code, renameVars, aggVars>>

\* lines 395-400: aggregate_index_csv writes the master file, or logs that
\* it could not (line 217)
Aggregate ==
    /\ pc = "aggregate"
    /\ master_exists' \in BOOLEAN
    /\ pc' = "upload_master"
    /\ UNCHANGED <<remote, sftp_download_dir, matching_files, downloaded_files, sftp_log,
                   drive_service, zip_files, processed, index_csv_list, extraction,
                   uploads, cleaned_up, exit_code, renameVars, aggVars>>

\* line 403: upload_file_to_drive(master_csv_path, ...)
UploadMaster ==
    /\ pc = "upload_master"
    /\ IF MediaFileUploadOpens(master_exists)
       THEN /\ \E ok \in BOOLEAN :
                 uploads' = uploads \cup {[zip |-> <<>>, name |-> MASTER_CSV, ok |-> ok]}
            /\ pc' = "cleanup"
            /\ UNCHANGED exit_code
       ELSE /\ pc' = "crashed"
            /\ exit_code' = 1
            /\ UNCHANGED uploads
    /\ UNCHANGED <<remote, sftp_download_dir, matching_files, downloaded_files, sftp_log,
                   drive_service, zip_files, processed, index_csv_list, extraction,
                   master_exists, cleaned_up, renameVars, aggVars>>

\* line 409, cleanup_local_files (lines 347-371); a failing rmtree is logged
Cleanup ==
    /\ pc = "cleanup"
    /\ \E removed \in BOOLEAN :
          sftp_download_dir' = IF removed THEN {} ELSE sftp_download_dir
    /\ extraction' = <<>>
    /\ master_exists' = FALSE
    /\ cleaned_up' = TRUE
    /\ exit_code' = 0
    /\ pc' = "done"
    /\ UNCHANGED <<remote, matching_files, downloaded_files, sftp_log,
                   drive_service, zip_files, processed, index_csv_list,
                   uploads, renameVars, aggVars>>

SftpNext == Connect \/ ListRemote \/ FetchNext

Next ==
    \/ Connect
    \/ ListRemote
    \/ FetchNext
    \/ MainCheck
    \/ InitDrive
    \/ GlobZipFiles
    \/ ProcessZipArchive
    \/ UploadExtractedFiles
    \/ Aggregate
    \/ UploadMaster
    \/ Cleanup

Init == MainInit(RemoteListings)

SftpInit == MainInit(RemoteListingsOfThree)

\* the whole run
Spec == Init /\ [][Next]_vars

\* download_files_from_sftp alone, with three matching files on the server
SpecSftp == SftpInit /\ [][SftpNext]_vars

----------------------------------------------------------------------------
(* Claims about the run *)

\* C3: when download_files_from_sftp returns no file, whatever the reason,
\* the run ends there with exit status 1: no archive is processed and
\* nothing is uploaded, not even the master index.
C3_NoFilesNoUpload ==
    (downloaded_files = <<>> /\ pc \notin {"connect", "list", "fetch"}) =>
        /\ pc \in {"main_check", "exit1"}
        /\ pc = "exit1" => exit_code = 1
        /\ uploads = {}
        /\ processed = <<>>
        /\ zip_files = <<>>
        /\ ~drive_service
        /\ ~cleaned_up

\* C3's case: the only matching file could not be fetched, an archive of an
\* earlier run lies in the download directory, and the run has exited
C3_Witness ==
    /\ pc = "exit1"
    /\ \E i \in DOMAIN sftp_log : sftp_log[i].op = "get" /\ ~sftp_log[i].ok
    /\ OLD_ZIP \in sftp_download_dir
    /\ downloaded_files = <<>>

\* C6 as stated: once retrieval has yielded an archive (and the Drive
\* service is there), no later failure aborts the run.
C6_RunIsNeverAborted ==
    (downloaded_files # <<>> /\ drive_service) => pc # "crashed"

RemoveCalls(f) == {i \in DOMAIN sftp_log : sftp_log[i].op = "remove" /\ sftp_log[i].file = f}

\* C7: sftp.remove is called for a file only right after the sftp.get of
\* that file returned; a file whose get failed is never removed remotely
\* and is not in downloaded_files; a failed remove is not repeated, leaves
\* the file in downloaded_files (and on the server), and the loop goes on:
\* when the function returns after the loop, get was called once for every
\* matching file, in list order.
C7_FetchThenDelete ==
    /\ \A i \in DOMAIN sftp_log :
          sftp_log[i].op = "remove" =>
             /\ i > 1
             /\ sftp_log[i - 1] = [op |-> "get", file |-> sftp_log[i].file, ok |-> TRUE]
             /\ Cardinality(RemoveCalls(sftp_log[i].file)) = 1
             /\ sftp_log[i].file \in Range(downloaded_files)
             /\ sftp_log[i].ok => sftp_log[i].file \notin remote
             /\ ~sftp_log[i].ok => sftp_log[i].file \in remote
    /\ \A i \in DOMAIN sftp_log :
          (sftp_log[i].op = "get" /\ ~sftp_log[i].ok) =>
             /\ RemoveCalls(sftp_log[i].file) = {}
             /\ sftp_log[i].file \in remote
             /\ sftp_log[i].file \notin Range(downloaded_files)
    /\ (pc = "main_check" /\ matching_files # <<>>) =>
          /\ Cardinality(GetCalls) = Len(matching_files)
          /\ \A k \in DOMAIN matching_files :
                \E i \in GetCalls :
                   /\ sftp_log[i].file = matching_files[k]
                   /\ Cardinality({j \in GetCalls : j < i}) = k - 1

\* C7's case: a get fails, then a get succeeds and its remove fails, then
\* the next file is fetched and removed
C7_Witness ==
    /\ pc = "main_check"
    /\ \E i, j, k \in DOMAIN sftp_log :
          /\ i < j /\ j < k
          /\ sftp_log[i].op = "get" /\ ~sftp_log[i].ok
          /\ sftp_log[j].op = "remove" /\ ~sftp_log[j].ok
          /\ sftp_log[k].op = "remove" /\ sftp_log[k].ok

\* the upload step of the i-th processed archive is over
UploadStepDone(i) == i < Len(processed) \/ pc # "upload_extracted"

\* C9 as stated: for an archive without an entry whose first line contains
\* "File name", nothing is renamed, no index path is collected, the upload
\* of every file extracted from it is attempted, and the loop goes on.
C9_NoIndexStillUploadsAll ==
    \A i \in DOMAIN processed :
        ~processed[i].marker =>
            /\ processed[i].renamed = <<>>
            /\ processed[i].index = None
            /\ \A k \in DOMAIN index_csv_list : index_csv_list[k][1] # processed[i].zip
            /\ UploadStepDone(i) =>
                  \A n \in processed[i].extracted :
                      \E u \in uploads : u.zip = processed[i].zip /\ u.name = n
            /\ (UploadStepDone(i) /\ i < Len(zip_files)) =>
                  (Len(processed) > i \/ pc = "archive")

AfterProcessing == pc \in {"aggregate", "upload_master", "cleanup", "done"}

ProcessedZips == {processed[i].zip : i \in DOMAIN processed}

\* C10 as stated: the archives handed to process_zip_archive are exactly
\* the archives fetched in this run, each once.
C10_ProcessedAreFetched ==
    AfterProcessing =>
        /\ ProcessedZips = Range(downloaded_files)
        /\ Len(processed) = Len(downloaded_files)

\* C10 amended: the archives handed to process_zip_archive are exactly the
\* *.zip files that lie in the download directory when
\* process_all_zip_archives lists it, each once; every archive fetched in
\* this run is among them, and so is any *.zip file left there before.
C10_ProcessedAreStaged ==
    /\ AfterProcessing =>
          /\ Len(processed) = Len(zip_files)
          /\ \A i, j \in DOMAIN processed : processed[i].zip = processed[j].zip => i = j
          /\ Range(downloaded_files) \subseteq ProcessedZips
          /\ pc # "done" =>
                ProcessedZips = {n \in sftp_download_dir : EndsWith(n, ZIP_EXT) /\ n[1] # "."}
    /\ \A i \in DOMAIN processed : processed[i].zip = zip_files[i]

\* C10's case: an archive fetched in this run and an archive left by an
\* earlier run have both been processed
C10_Witness ==
    /\ AfterProcessing
    /\ downloaded_files = <<Z1>>
    /\ ProcessedZips = {Z1, OLD_ZIP}

====
